---- MODULE Spec2Model ----
(***************************************************************************)
(* Model of the collaborative snippet editor (src/src/main.jsx): the App   *)
(* component's React state, the snapshot subscription effect and its       *)
(* captured closure, the debounced save timer (window.saveTimer), the      *)
(* asynchronous saveToFirestore commits, the room-id input, and the        *)
(* document store the component talks to.                                  *)
(*                                                                         *)
(* Strings that the code inspects character by character (room ids) are    *)
(* sequences of one-character strings; document contents, which the code   *)
(* only copies and tests for truthiness, are plain strings.                *)
(*                                                                         *)
(* Every handler is one atomic action that includes the re-render it       *)
(* causes and the effects of that render (React flushes them before the    *)
(* next event is handled).  A closure created in a render is modelled by   *)
(* the values of the state variables it captured.                          *)
(***************************************************************************)
EXTENDS Naturals, Sequences, FiniteSets

\* ------------------------------------------------------------------ bounds
\* Largest time step of one Tick, in milliseconds.
TickMs == 500
\* Total number of remote writes (setDoc calls) issued in one run.
MaxWrites == 1
\* The same, in the runs that stay in one room (SpecOneRoom).
MaxWritesOneRoom == 2
MaxWritesPair == 2
\* Number of duplicate deliveries of a notification per client.
MaxRedeliver == 1
\* Number of writes that reach the store from participants other than the
\* modelled clients.
MaxRemote == 1
\* Longest explicit body of a generated room-id candidate.
MaxBody == 1

\* ------------------------------------------------------- program constants
QuietPeriod == 1000
RoomLenLimit == 50

Clients == {"A", "B"}

\* useState initial values
DefaultRoom == <<"w","e","l","c","o","m","e","-","s","n","i","p","p","e","t">>
InitialCode == "// Start writing your collaborative code here!"

\* Contents the editor widget reports on a change.
EditContents == {"", "x"}

\* Contents written by other participants.
RemoteContents == {"y"}

\* The clients whose every step is modelled in Spec.
Solo == {"A"}

\* ------------------------------------------------------------ characters
LowerChars == {"a","b","c","d","e","f","g","h","i","j","k","l","m",
               "n","o","p","q","r","s","t","u","v","w","x","y","z"}
UpperChars == {"A","B","C","D","E","F","G","H","I","J","K","L","M",
               "N","O","P","Q","R","S","T","U","V","W","X","Y","Z"}
DigitChars == {"0","1","2","3","4","5","6","7","8","9"}
WhiteChars == {" ", "\t", "\n"}

LowerSeq == <<"a","b","c","d","e","f","g","h","i","j","k","l","m",
              "n","o","p","q","r","s","t","u","v","w","x","y","z">>
UpperSeq == <<"A","B","C","D","E","F","G","H","I","J","K","L","M",
              "N","O","P","Q","R","S","T","U","V","W","X","Y","Z">>

\* Canonicalize of the regular-expression engine under the i flag: an ASCII
\* letter is compared by its upper-case form, every other character by itself.
Canonicalize(ch) ==
    IF ch \in LowerChars
    THEN UpperSeq[CHOOSE i \in 1..26 : LowerSeq[i] = ch]
    ELSE ch

\* The character class [a-z0-9-] as written in the pattern.
ClassChars == LowerChars \cup DigitChars \cup {"-"}

\* The class after canonicalization, as the engine compares under the i flag.
ClassCanon == {Canonicalize(m) : m \in ClassChars}

\* One character against the class; ignoreCase is the i flag.
ClassMatches(ch, ignoreCase) ==
    IF ignoreCase
    THEN Canonicalize(ch) \in ClassCanon
    ELSE ch \in ClassChars

\* newId.match(/^[a-z0-9-]+$/i): one or more class characters, anchored at
\* both ends of the input.
RECURSIVE AllClass(_)
AllClass(s) ==
    IF s = <<>> THEN TRUE
    ELSE ClassMatches(Head(s), TRUE) /\ AllClass(Tail(s))

RegexMatch(s) == Len(s) >= 1 /\ AllClass(s)

\* String.prototype.trim
RECURSIVE TrimLeft(_)
TrimLeft(s) ==
    IF s = <<>> THEN s
    ELSE IF Head(s) \in WhiteChars THEN TrimLeft(Tail(s)) ELSE s

RECURSIVE TrimRight(_)
TrimRight(s) ==
    IF s = <<>> THEN s
    ELSE IF s[Len(s)] \in WhiteChars THEN TrimRight(SubSeq(s, 1, Len(s) - 1))
    ELSE s

Trim(s) == TrimRight(TrimLeft(s))

\* The condition of handleRoomChange on the trimmed value.
LengthOkLoose(newId) == Len(newId) <= RoomLenLimit

LengthOk(newId) == Len(newId) < RoomLenLimit

RoomAccepted(newId) ==
    /\ newId # <<>>
    /\ LengthOk(newId)
    /\ RegexMatch(newId)


\* ------------------------------------------------------------- room ids
\* Values the user leaves in the room field (typed or pasted).
TypedRooms == {DefaultRoom, <<"r","_">>}

\* The room the two-client runs move to.
PairRoom == <<"r">>

\* Room-id candidates for the validation runs: optional blanks around a
\* short body followed by a run of "a", with lengths on both sides of the
\* limit.
BodyChars == {"a", "Z", "5", "-", " ", "_"}

RECURSIVE SeqsUpTo(_, _)
SeqsUpTo(S, n) ==
    IF n = 0 THEN {<<>>}
    ELSE LET shorter == SeqsUpTo(S, n - 1)
         IN shorter \cup {Append(q, x) : q \in shorter, x \in S}

Run(ch, n) == [i \in 1..n |-> ch]

PadLengths == {0, RoomLenLimit - 2, RoomLenLimit - 1, RoomLenLimit}

Candidates ==
    {lead \o body \o Run("a", n) \o trail :
        lead \in {<<>>, <<" ">>}, trail \in {<<>>, <<" ">>},
        body \in SeqsUpTo(BodyChars, MaxBody), n \in PadLengths}

\* ------------------------------------------------------------ the state
VARIABLES
    db,            \* useState db: TRUE once setDb(firestoreDb) has run
    userId,        \* useState userId: NoUser or the uid
    isInitialized, \* useState isInitialized
    snippetId,     \* useState snippetId, the current room
    code,          \* useState code, the local buffer
    isSaving,      \* useState isSaving
    status,        \* useState status
    mounted,       \* the mount effect (effect 1) has run
    sub,           \* the live onSnapshot listener and the closure it captured
    timer,         \* window.saveTimer and the closure of its callback
    listeners,     \* the store's side: rooms on which the client's onSnapshot is open
    inbox,         \* snapshots the store still has to deliver to the client
    redelivered,   \* duplicate deliveries so far
    doc,           \* the store: room -> document
    writes,        \* setDoc calls whose promise has not settled
    nIssued,       \* setDoc calls issued so far
    nRemote,       \* writes of other participants so far
    sinceEdit,     \* history: time since the client's last local edit
    burst,         \* history: the current run of edits and its timer writes
    dirty,         \* history: a local edit or creation is not yet committed
    subStats,      \* history: absent snapshots and creation commits per listener
    last           \* history: the handler that ran last and what it saw

vars == <<db, userId, isInitialized, snippetId, code, isSaving, status,
          mounted, sub, timer, listeners, inbox, redelivered, doc, writes,
          nIssued, nRemote, sinceEdit, burst, dirty, subStats, last>>

NoUser == "null"
NoRoom == <<>>

Status(msg, room) == [msg |-> msg, room |-> room]

RoomInvalidMsg == "Room ID must be alphanumeric/hyphenated and non-empty."

Absent == [exists |-> FALSE, content |-> ""]
Existing(content) == [exists |-> TRUE, content |-> content]

\* A snapshot on its way to a client: the document and the room of the
\* listener it is for.
Notice(room, d) == [exists |-> d.exists, content |-> d.content, room |-> room]

NoSub == [active |-> FALSE, room |-> NoRoom, isSaving |-> FALSE, code |-> ""]
NoTimer == [set |-> FALSE, content |-> "", room |-> NoRoom, remaining |-> 0]
NoBurst == [edits |-> 0, last |-> "", writes |-> <<>>]
NoStats == [absents |-> 0, creates |-> 0, failed |-> 0]

NoEvent == [op |-> "init", c |-> "", snap |-> Notice(NoRoom, Absent),
            saving |-> FALSE,
            subSaving |-> FALSE, prevCode |-> "", commit |-> Absent,
            cand |-> NoRoom, prevRoom |-> NoRoom, accepted |-> FALSE]

\* Handlers whose outcome no property inspects leave this record.
OtherEvent == [NoEvent EXCEPT !.op = "other"]

Min(a, b) == IF a <= b THEN a ELSE b

\* JavaScript truthiness of a string
Truthy(str) == str # ""

Init ==
    /\ db = [c \in Clients |-> FALSE]
    /\ userId = [c \in Clients |-> NoUser]
    /\ isInitialized = [c \in Clients |-> FALSE]
    /\ snippetId = [c \in Clients |-> DefaultRoom]
    /\ code = [c \in Clients |-> InitialCode]
    /\ isSaving = [c \in Clients |-> FALSE]
    /\ status = [c \in Clients |-> Status("Initializing...", NoRoom)]
    /\ mounted = [c \in Clients |-> FALSE]
    /\ sub = [c \in Clients |-> NoSub]
    /\ timer = [c \in Clients |-> NoTimer]
    /\ listeners = [c \in Clients |-> {}]
    /\ inbox = [c \in Clients |-> <<>>]
    /\ redelivered = [c \in Clients |-> 0]
    /\ doc = <<>>
    /\ writes = <<>>
    /\ nIssued = 0
    /\ nRemote = 0
    /\ sinceEdit = [c \in Clients |-> QuietPeriod]
    /\ burst = [c \in Clients |-> NoBurst]
    /\ dirty = [c \in Clients |-> FALSE]
    /\ subStats = [c \in Clients |-> NoStats]
    /\ last = NoEvent


\* The store maps the keys written so far to their documents.
DocAt(room) == IF room \in DOMAIN doc THEN doc[room] ELSE Absent

DocPut(room, content) ==
    [r \in DOMAIN doc \cup {room} |->
        IF r = room THEN Existing(content) ELSE doc[r]]

\* ------------------------------------------------ the subscription effect
\* Effect 2 runs when db, userId or snippetId changed.  It returns early
\* without a listener unless both db and userId are set; otherwise it opens
\* the listener, whose callback closes over isSaving, code and snippetId of
\* the render the effect belongs to.
EffectRuns(dbv, user) == dbv /\ user # NoUser

EffectSub(dbv, user, room, saving, buf) ==
    IF EffectRuns(dbv, user)
    THEN [active |-> TRUE, room |-> room, isSaving |-> saving, code |-> buf]
    ELSE NoSub

\* The effect's cleanup, return () => unsubscribe(): the listener of the
\* previous run of the effect is closed before the effect runs again.
UnsubscribeNothing(open, room) == open

Unsubscribe(open, room) == open \ {room}

EffectListeners(dbv, user, room, open) ==
    IF EffectRuns(dbv, user) THEN open \cup {room} ELSE open

\* Snapshots of a closed listener are not delivered.
StillOpen(pending, open) == SelectSeq(pending, LAMBDA n : n.room \in open)

\* The store answers a new listener with the document as it is.
EffectInbox(dbv, user, room, pending) ==
    IF EffectRuns(dbv, user)
    THEN Append(pending, Notice(room, DocAt(room)))
    ELSE pending

EffectStatus(dbv, user, room, before) ==
    IF EffectRuns(dbv, user)
    THEN Status("Subscribing to room: ", room)
    ELSE before

\* ------------------------------------------------------ mount and sign-in
\* Effect 1: initializeApp/getFirestore/getAuth either succeed (setDb) or
\* throw into the catch block.
MountEffect(c) ==
    /\ ~mounted[c]
    /\ mounted' = [mounted EXCEPT ![c] = TRUE]
    /\ \E ok \in BOOLEAN :
         IF ok
         THEN /\ db' = [db EXCEPT ![c] = TRUE]
              /\ status' = status
         ELSE /\ db' = db
              /\ status' = [status EXCEPT ![c] =
                     Status("Error: Could not initialize Firebase.", NoRoom)]
    /\ last' = OtherEvent
    /\ UNCHANGED <<listeners, nRemote, userId, isInitialized, snippetId, code, isSaving, sub,
                   timer, inbox, redelivered, doc, writes, nIssued,
                   sinceEdit, burst, dirty, subStats>>

\* The onAuthStateChanged callback.  The application never signs out, so the
\* callback is delivered until a user is reported and not after.
AuthStateChanged(c, user) ==
    /\ mounted[c] /\ db[c]
    /\ userId[c] = NoUser
    /\ IF user # NoUser
       THEN /\ userId' = [userId EXCEPT ![c] = user]
            /\ isInitialized' = [isInitialized EXCEPT ![c] = TRUE]
            /\ status' = [status EXCEPT ![c] =
                   EffectStatus(db[c], user, snippetId[c],
                                Status("Authenticated as: ", NoRoom))]
            /\ sub' = [sub EXCEPT ![c] =
                   EffectSub(db[c], user, snippetId[c], isSaving[c], code[c])]
            /\ listeners' = [listeners EXCEPT ![c] =
                   EffectListeners(db[c], user, snippetId[c], @)]
            /\ inbox' = [inbox EXCEPT ![c] =
                   EffectInbox(db[c], user, snippetId[c], @)]
            /\ subStats' = [subStats EXCEPT ![c] = NoStats]
       ELSE /\ status' = [status EXCEPT ![c] =
                   Status("Authentication failed.", NoRoom)]
            /\ UNCHANGED <<userId, isInitialized, sub, listeners, inbox,
                           subStats>>
    /\ last' = OtherEvent
    /\ UNCHANGED <<nRemote, db, snippetId, code, isSaving, mounted, timer, redelivered,
                   doc, writes, nIssued, sinceEdit, burst, dirty>>

\* ------------------------------------------------------------ room input
\* setSnippetId(value) followed by the render and effect 2 of that render.
SetSnippetId(c, value) ==
    /\ snippetId' = [snippetId EXCEPT ![c] = value]
    /\ sub' = [sub EXCEPT ![c] =
           EffectSub(db[c], userId[c], value, isSaving[c], code[c])]
    /\ LET open == Unsubscribe(listeners[c], sub[c].room) IN
       /\ listeners' = [listeners EXCEPT ![c] =
              EffectListeners(db[c], userId[c], value, open)]
       /\ inbox' = [inbox EXCEPT ![c] =
              EffectInbox(db[c], userId[c], value, StillOpen(@, open))]
    /\ subStats' = [subStats EXCEPT ![c] = NoStats]

\* onChange of the room field: setSnippetId(e.target.value).  The field is
\* rendered only once isInitialized is set.
TypeRoom(c, value) ==
    /\ isInitialized[c]
    /\ value # snippetId[c]
    /\ SetSnippetId(c, value)
    /\ status' = [status EXCEPT ![c] =
           EffectStatus(db[c], userId[c], value, status[c])]
    /\ last' = OtherEvent
    /\ UNCHANGED <<nRemote, db, userId, isInitialized, code, isSaving, mounted, timer,
                   redelivered, doc, writes, nIssued, sinceEdit, burst, dirty>>

\* onBlur of the room field: handleRoomChange.  The field is controlled
\* (value={snippetId}), so e.target.value is the current snippetId.
HandleRoomChange(c) ==
    /\ isInitialized[c]
    /\ LET value == snippetId[c]
           newId == Trim(value)
       IN /\ IF RoomAccepted(newId)
             THEN IF newId # snippetId[c]
                  THEN /\ SetSnippetId(c, newId)
                       /\ status' = [status EXCEPT ![c] =
                              EffectStatus(db[c], userId[c], newId, status[c])]
                  ELSE UNCHANGED <<snippetId, sub, listeners, inbox, subStats,
                                 status>>
             ELSE /\ status' = [status EXCEPT ![c] =
                         Status(RoomInvalidMsg, NoRoom)]
                  /\ UNCHANGED <<snippetId, sub, listeners, inbox, subStats>>
          /\ last' = [NoEvent EXCEPT !.op = "blur", !.c = c, !.cand = value,
                                     !.prevRoom = snippetId[c],
                                     !.accepted = RoomAccepted(newId)]
    /\ UNCHANGED <<nRemote, db, userId, isInitialized, code, isSaving, mounted, timer,
                   redelivered, doc, writes, nIssued, sinceEdit, burst, dirty>>


\* ------------------------------------------------------- debounced save
\* clearTimeout(window.saveTimer); window.saveTimer = setTimeout(...): the
\* previous timer is cancelled and a new one holds newCode and the
\* saveToFirestore of this render (which writes to this render's snippetId).
NewTimerNoRestart(old, newCode, room) ==
    [set |-> TRUE, content |-> newCode, room |-> room,
     remaining |-> IF old.set THEN old.remaining ELSE QuietPeriod]

NewTimer(old, newCode, room) ==
    [set |-> TRUE, content |-> newCode, room |-> room,
     remaining |-> QuietPeriod]

\* snippetRef = doc(db, ..., snippetId): the snippetId of the render whose
\* saveToFirestore is called (closure), not the one current at the call.
SnippetRefCurrent(closure, current) == current

SnippetRef(closure, current) == closure

\* saveToFirestore up to its await: the setDoc call that is now in flight.
NewWriteDefaultRoom(c, room, content, origin) ==
    [client |-> c, room |-> DefaultRoom, content |-> content,
     origin |-> origin, applied |-> FALSE]

NewWrite(c, room, content, origin) ==
    [client |-> c, room |-> room, content |-> content, origin |-> origin,
     applied |-> FALSE]

\* onChange of the editor: handleSaveCode(newCode, viewUpdate); the second
\* argument is an object, so the debounce branch is taken.  The editor is
\* rendered only once isInitialized is set and reports a change only when
\* the text differs from the buffer.  A timer that has expired runs before
\* a later edit is handled.
HandleSaveCode(c, newCode) ==
    /\ isInitialized[c]
    /\ newCode # code[c]
    /\ ~(timer[c].set /\ timer[c].remaining = 0)
    /\ IF ~db[c] \/ userId[c] = NoUser
       THEN UNCHANGED <<code, timer, sinceEdit, burst, dirty>>
       ELSE /\ code' = [code EXCEPT ![c] = newCode]
            /\ timer' = [timer EXCEPT ![c] =
                   NewTimer(timer[c], newCode, snippetId[c])]
            /\ sinceEdit' = [sinceEdit EXCEPT ![c] = 0]
            /\ burst' = [burst EXCEPT ![c] =
                   IF burst[c].edits > 0 /\ sinceEdit[c] < QuietPeriod
                   THEN [burst[c] EXCEPT !.last = newCode,
                                         !.edits = Min(2, @ + 1)]
                   ELSE [edits |-> 1, last |-> newCode, writes |-> <<>>]]
            /\ dirty' = [dirty EXCEPT ![c] = TRUE]
    /\ last' = OtherEvent
    /\ UNCHANGED <<listeners, nRemote, db, userId, isInitialized, snippetId, isSaving, status,
                   mounted, sub, inbox, redelivered, doc, writes, nIssued,
                   subStats>>

\* Time passes, at most up to the next timer expiry.
Tick ==
    /\ \E c \in Clients : timer[c].set
    /\ \A c \in Clients : timer[c].set => timer[c].remaining > 0
    /\ LET due == {timer[c].remaining : c \in {k \in Clients : timer[k].set}}
           step == CHOOSE d \in due \cup {TickMs} :
                       \A e \in due \cup {TickMs} : d <= e
       IN /\ timer' = [c \in Clients |->
                 IF timer[c].set
                 THEN [timer[c] EXCEPT !.remaining = @ - step]
                 ELSE timer[c]]
          /\ sinceEdit' = [c \in Clients |->
                 Min(QuietPeriod, sinceEdit[c] + step)]
    /\ last' = OtherEvent
    /\ UNCHANGED <<listeners, nRemote, db, userId, isInitialized, snippetId, code, isSaving,
                   status, mounted, sub, inbox, redelivered, doc, writes,
                   nIssued, burst, dirty, subStats>>

\* The setTimeout callback: saveToFirestore(newCode) up to its await.
TimerFires(c, quota) ==
    /\ timer[c].set /\ timer[c].remaining = 0
    /\ nIssued < quota
    /\ timer' = [timer EXCEPT ![c] = NoTimer]
    /\ isSaving' = [isSaving EXCEPT ![c] = TRUE]
    /\ status' = [status EXCEPT ![c] =
           Status("Saving changes to Firestore...", NoRoom)]
    /\ writes' = Append(writes,
           NewWrite(c, SnippetRef(timer[c].room, snippetId[c]),
                    timer[c].content, "debounce"))
    /\ nIssued' = nIssued + 1
    /\ burst' = [burst EXCEPT ![c].writes = Append(@, timer[c].content)]
    /\ last' = [NoEvent EXCEPT !.op = "fire", !.c = c,
                               !.commit = Existing(timer[c].content),
                               !.prevCode = code[c], !.saving = isSaving[c]]
    /\ UNCHANGED <<listeners, nRemote, db, userId, isInitialized, snippetId, code, mounted, sub,
                   inbox, redelivered, doc, sinceEdit, dirty, subStats>>


\* --------------------------------------------------- the snapshot callback
\* The callback of the listener opened by effect 2.  isSaving, code and
\* snippetId are the values the closure captured when the listener was
\* opened (sub[c]), not the current state.  The handleSaveCode it calls is
\* the one of that render too, whose db and userId are set, so its early
\* return is never taken here.  quota caps the number of setDoc calls.
OnSnapshot(c, snap, rest, dups, quota) ==
    LET s == sub[c] IN
    /\ inbox' = [inbox EXCEPT ![c] = rest]
    /\ redelivered' = [redelivered EXCEPT ![c] = dups]
    /\ IF snap.exists
       THEN /\ IF ~s.isSaving /\ Truthy(snap.content)
               THEN /\ code' = [code EXCEPT ![c] = snap.content]
                    /\ status' = [status EXCEPT ![c] =
                           Status("Real-time update received in room: ", s.room)]
               ELSE UNCHANGED <<code, status>>
            /\ UNCHANGED <<isSaving, writes, nIssued, dirty, subStats>>
            /\ last' = [NoEvent EXCEPT !.op = "snapshot", !.c = c,
                           !.snap = snap, !.saving = isSaving[c],
                           !.subSaving = s.isSaving, !.prevCode = code[c]]
       ELSE \* handleSaveCode(code, false), then setStatus
            /\ nIssued < quota
            /\ code' = [code EXCEPT ![c] = s.code]
            /\ isSaving' = [isSaving EXCEPT ![c] = TRUE]
            /\ writes' = Append(writes,
                   NewWrite(c, SnippetRef(s.room, snippetId[c]), s.code,
                            "create"))
            /\ nIssued' = nIssued + 1
            /\ status' = [status EXCEPT ![c] =
                   Status("New collaboration room created: ", s.room)]
            /\ dirty' = [dirty EXCEPT ![c] = TRUE]
            /\ subStats' = [subStats EXCEPT ![c] =
                   [@ EXCEPT !.absents = @ + 1, !.creates = @ + 1]]
            /\ last' = [NoEvent EXCEPT !.op = "snapshot", !.c = c,
                           !.snap = snap, !.saving = isSaving[c],
                           !.subSaving = s.isSaving, !.prevCode = code[c],
                           !.commit = Existing(s.code)]
    /\ UNCHANGED <<listeners, nRemote, db, userId, isInitialized, snippetId, mounted, sub, timer,
                   doc, sinceEdit, burst>>

\* The store delivers the next snapshot to the live listener.
DeliverSnapshot(c, quota) ==
    /\ sub[c].active
    /\ inbox[c] # <<>>
    /\ OnSnapshot(c, Head(inbox[c]), Tail(inbox[c]), redelivered[c], quota)

\* At-least-once delivery: the store delivers a snapshot and will deliver
\* the same snapshot again.
RedeliverSnapshot(c, quota) ==
    /\ sub[c].active
    /\ inbox[c] # <<>>
    /\ redelivered[c] < MaxRedeliver
    /\ OnSnapshot(c, Head(inbox[c]), inbox[c], redelivered[c] + 1, quota)

\* ------------------------------------------------------------- the store
RemoveAt(q, i) == SubSeq(q, 1, i - 1) \o SubSeq(q, i + 1, Len(q))

\* The store applies a merge-write and notifies every live listener of that
\* document.
StoreApplies(i) ==
    /\ i \in 1..Len(writes)
    /\ ~writes[i].applied
    /\ LET w == writes[i] IN
       /\ doc' = DocPut(w.room, w.content)
       /\ writes' = [writes EXCEPT ![i].applied = TRUE]
       /\ inbox' = [c \in Clients |->
              IF w.room \in listeners[c]
              THEN Append(inbox[c], Notice(w.room, Existing(w.content)))
              ELSE inbox[c]]
       /\ dirty' = [dirty EXCEPT ![w.client] = FALSE]
       /\ last' = OtherEvent
    /\ UNCHANGED <<listeners, nRemote, db, userId, isInitialized, snippetId, code, isSaving,
                   status, mounted, sub, timer, redelivered, nIssued,
                   sinceEdit, burst, subStats>>

\* The catch block of saveToFirestore: console.error and setStatus.
CatchSilent(c) == status

Catch(c) ==
    [status EXCEPT ![c] = Status("Error: Failed to save changes.", NoRoom)]

\* The finally block of saveToFirestore: setIsSaving(false).
FinallySkipped(c) == isSaving

Finally(c) == [isSaving EXCEPT ![c] = FALSE]

\* saveToFirestore after its await, setDoc resolved: try block, then finally.
WriteResolves(i) ==
    /\ i \in 1..Len(writes)
    /\ writes[i].applied
    /\ LET w == writes[i] IN
       /\ status' = [status EXCEPT ![w.client] =
              Status("Changes saved successfully to room: ", w.room)]
       /\ isSaving' = Finally(w.client)
       /\ writes' = RemoveAt(writes, i)
       /\ last' = OtherEvent
    /\ UNCHANGED <<listeners, nRemote, db, userId, isInitialized, snippetId, code, mounted, sub,
                   timer, inbox, redelivered, doc, nIssued, sinceEdit, burst,
                   dirty, subStats>>

\* saveToFirestore after its await, setDoc rejected: catch block, then finally.
WriteFails(i) ==
    /\ i \in 1..Len(writes)
    /\ ~writes[i].applied
    /\ LET w == writes[i] IN
       /\ status' = Catch(w.client)
       /\ isSaving' = Finally(w.client)
       /\ writes' = RemoveAt(writes, i)
       /\ dirty' = [dirty EXCEPT ![w.client] = TRUE]
       /\ subStats' = [subStats EXCEPT ![w.client].failed =
              IF /\ w.origin = "create"
                 /\ sub[w.client].active /\ sub[w.client].room = w.room
              THEN @ + 1 ELSE @]
       /\ last' = [NoEvent EXCEPT !.op = "fail", !.c = w.client,
                                  !.prevCode = code[w.client],
                                  !.saving = isSaving[w.client]]
    /\ UNCHANGED <<listeners, nRemote, db, userId, isInitialized, snippetId, code, mounted, sub,
                   timer, inbox, redelivered, doc, nIssued, sinceEdit, burst>>

\* A write of another participant reaches the store.
RemoteWrite(room, content) ==
    /\ nRemote < MaxRemote
    /\ nRemote' = nRemote + 1
    /\ doc' = DocPut(room, content)
    /\ inbox' = [c \in Clients |->
           IF room \in listeners[c]
           THEN Append(inbox[c], Notice(room, Existing(content)))
           ELSE inbox[c]]
    /\ last' = OtherEvent
    /\ UNCHANGED <<listeners, db, userId, isInitialized, snippetId, code,
                   isSaving, status, mounted, sub, timer, redelivered, writes,
                   nIssued,
                   sinceEdit, burst, dirty, subStats>>

\* ----------------------------------------------------- the specification
\* The handlers of one client that do not touch the room field.
EditorStep(c, quota) ==
    \/ MountEffect(c)
    \/ \E user \in {NoUser, c} : AuthStateChanged(c, user)
    \/ \E newCode \in EditContents : HandleSaveCode(c, newCode)
    \/ TimerFires(c, quota)
    \/ DeliverSnapshot(c, quota)
    \/ RedeliverSnapshot(c, quota)

\* The handlers of the room field.
RoomStep(c) ==
    \/ \E value \in TypedRooms : TypeRoom(c, value)
    \/ HandleRoomChange(c)

StoreStep(quota) ==
    \/ \E i \in 1..quota : StoreApplies(i)
    \/ \E i \in 1..quota : WriteResolves(i)
    \/ \E i \in 1..quota : WriteFails(i)
    \/ \E room \in TypedRooms : \E content \in RemoteContents :
           RemoteWrite(room, content)

Next ==
    \/ \E c \in Solo : EditorStep(c, MaxWrites)
    \/ \E c \in Solo : RoomStep(c)
    \/ Tick
    \/ StoreStep(MaxWrites)

Spec == Init /\ [][Next]_vars

\* A session that stays in the default room, with a larger budget of writes.
NextOneRoom ==
    \/ \E c \in Solo : EditorStep(c, MaxWritesOneRoom)
    \/ Tick
    \/ StoreStep(MaxWritesOneRoom)

SpecOneRoom == Init /\ [][NextOneRoom]_vars

\* Two signed-in clients that edit and move from the default room to one
\* other room, in runs that end before the quiet period of the first edit
\* does; nobody else writes.
InitPair ==
    /\ db = [c \in Clients |-> TRUE]
    /\ userId = [c \in Clients |-> c]
    /\ isInitialized = [c \in Clients |-> TRUE]
    /\ snippetId = [c \in Clients |-> DefaultRoom]
    /\ code = [c \in Clients |-> InitialCode]
    /\ isSaving = [c \in Clients |-> FALSE]
    /\ status = [c \in Clients |-> Status("Subscribing to room: ", DefaultRoom)]
    /\ mounted = [c \in Clients |-> TRUE]
    /\ sub = [c \in Clients |->
           [active |-> TRUE, room |-> DefaultRoom, isSaving |-> FALSE,
            code |-> InitialCode]]
    /\ timer = [c \in Clients |-> NoTimer]
    /\ listeners = [c \in Clients |-> {DefaultRoom}]
    /\ inbox = [c \in Clients |-> <<Notice(DefaultRoom, Absent)>>]
    /\ redelivered = [c \in Clients |-> 0]
    /\ doc = <<>>
    /\ writes = <<>>
    /\ nIssued = 0
    /\ nRemote = 0
    /\ sinceEdit = [c \in Clients |-> QuietPeriod]
    /\ burst = [c \in Clients |-> NoBurst]
    /\ dirty = [c \in Clients |-> FALSE]
    /\ subStats = [c \in Clients |-> NoStats]
    /\ last = NoEvent

NextPair ==
    \/ \E c \in Clients : \E newCode \in EditContents : HandleSaveCode(c, newCode)
    \/ \E c \in Clients : DeliverSnapshot(c, MaxWritesPair)
    \/ \E c \in Clients : TypeRoom(c, PairRoom)
    \/ \E i \in 1..MaxWritesPair : StoreApplies(i)
    \/ \E i \in 1..MaxWritesPair : WriteResolves(i)
    \/ \E i \in 1..MaxWritesPair : WriteFails(i)

SpecPair == InitPair /\ [][NextPair]_vars

\* Room validation: a signed-in session in which the user leaves any of the
\* candidates in the room field and then leaves the field.
InitRoom ==
    /\ db = [c \in Clients |-> c \in Solo]
    /\ userId = [c \in Clients |-> IF c \in Solo THEN c ELSE NoUser]
    /\ isInitialized = [c \in Clients |-> c \in Solo]
    /\ snippetId = [c \in Clients |-> DefaultRoom]
    /\ code = [c \in Clients |-> InitialCode]
    /\ isSaving = [c \in Clients |-> FALSE]
    /\ status = [c \in Clients |->
           IF c \in Solo THEN Status("Subscribing to room: ", DefaultRoom)
           ELSE Status("Initializing...", NoRoom)]
    /\ mounted = [c \in Clients |-> c \in Solo]
    /\ sub = [c \in Clients |->
           IF c \in Solo
           THEN [active |-> TRUE, room |-> DefaultRoom, isSaving |-> FALSE,
                 code |-> InitialCode]
           ELSE NoSub]
    /\ timer = [c \in Clients |-> NoTimer]
    /\ listeners = [c \in Clients |-> IF c \in Solo THEN {DefaultRoom} ELSE {}]
    /\ inbox = [c \in Clients |->
           IF c \in Solo THEN <<Notice(DefaultRoom, Absent)>> ELSE <<>>]
    /\ redelivered = [c \in Clients |-> 0]
    /\ doc = <<>>
    /\ writes = <<>>
    /\ nIssued = 0
    /\ nRemote = 0
    /\ sinceEdit = [c \in Clients |-> QuietPeriod]
    /\ burst = [c \in Clients |-> NoBurst]
    /\ dirty = [c \in Clients |-> FALSE]
    /\ subStats = [c \in Clients |-> NoStats]
    /\ last = NoEvent

NextRoom ==
    \/ \E c \in Solo : \E value \in Candidates : TypeRoom(c, value)
    \/ \E c \in Solo : HandleRoomChange(c)

SpecRoom == InitRoom /\ [][NextRoom]_vars

\* ------------------------------------------------------------ properties
\* ^[A-Za-z0-9-]{1,49}$
ValidRoomId(r) ==
    /\ Len(r) >= 1
    /\ Len(r) <= 49
    /\ \A i \in 1..Len(r) :
           r[i] \in UpperChars \cup LowerChars \cup DigitChars \cup {"-"}

\* s without its leading and trailing white space.
Trimmed(s) ==
    LET solid == {i \in 1..Len(s) : s[i] \notin WhiteChars}
    IN IF solid = {} THEN <<>>
       ELSE SubSeq(s, CHOOSE i \in solid : \A j \in solid : i <= j,
                      CHOOSE i \in solid : \A j \in solid : i >= j)

\* No timer pending, no local edit or creation left uncommitted, no commit in
\* flight, every notification delivered.
Quiescent ==
    /\ writes = <<>>
    /\ \A c \in Clients :
           ~timer[c].set /\ ~dirty[c] /\ inbox[c] = <<>>

\* C1: once no client has an edit pending or a commit in flight and every
\* notification has been delivered, the buffer of every subscribed client
\* equals the content of the store's document for its room.
C1_Convergence ==
    Quiescent =>
        \A c \in Clients :
            sub[c].active =>
                /\ DocAt(sub[c].room).exists
                /\ code[c] = DocAt(sub[c].room).content

\* C2: a run of local edits, each within the quiet period of the previous
\* one, produces no timer write while the run can still grow and exactly one
\* timer write, carrying the content of the last edit, once it has ended.
C2_Coalescing ==
    \A c \in Clients :
        burst[c].edits > 0 =>
            IF sinceEdit[c] < QuietPeriod
            THEN burst[c].writes = <<>>
            ELSE \/ burst[c].writes = <<burst[c].last>>
                 \/ /\ burst[c].writes = <<>>
                    /\ timer[c].set
                    /\ timer[c].remaining = 0

\* A run of at least two edits has ended and its single write was issued.
C2_Witness ==
    \E c \in Clients :
        /\ burst[c].edits >= 2
        /\ sinceEdit[c] = QuietPeriod
        /\ burst[c].writes = <<burst[c].last>>
        /\ \E i \in 1..Len(writes) :
               writes[i].origin = "debounce" /\ writes[i].content = burst[c].last

\* C3: the current room, and the room of the live listener, always match
\* ^[A-Za-z0-9-]{1,49}$.
C3_RoomAlwaysValid ==
    \A c \in Clients :
        /\ ValidRoomId(snippetId[c])
        /\ sub[c].active => ValidRoomId(sub[c].room)

\* C4: handleRoomChange accepts exactly the candidates whose trimmed value
\* is non-empty, shorter than 50 and made of letters, digits and hyphens,
\* and on acceptance the current room is the trimmed candidate.
C4_SetRoomAcceptsIffValid ==
    last.op = "blur" =>
        LET t == Trimmed(last.cand) IN
        /\ last.accepted <=>
               /\ t # <<>>
               /\ Len(t) < 50
               /\ \A i \in 1..Len(t) :
                      t[i] \in UpperChars \cup LowerChars \cup DigitChars \cup {"-"}
        /\ last.accepted => snippetId[last.c] = t

\* A padded candidate of the greatest accepted length was accepted and the
\* current room is its trimmed form.
C4_Witness ==
    /\ last.op = "blur"
    /\ last.accepted
    /\ last.cand # snippetId[last.c]
    /\ Len(snippetId[last.c]) = RoomLenLimit - 1
    /\ \E i \in 1..Len(snippetId[last.c]) : snippetId[last.c][i] \in UpperChars

\* C5: after a rejection the current room is the one before, the status is
\* the validation message, and the client has neither a listener on nor a
\* write to the rejected candidate.
C5_RejectNoStoreCall ==
    (last.op = "blur" /\ ~last.accepted) =>
        /\ snippetId[last.c] = last.prevRoom
        /\ status[last.c].msg = RoomInvalidMsg
        /\ ~(sub[last.c].active /\ sub[last.c].room = last.cand)
        /\ \A i \in 1..Len(writes) :
               ~(writes[i].client = last.c /\ writes[i].room = last.cand)

\* C6: after a snapshot of an existing document is handled while isSaving is
\* false, the buffer equals the snapshot's content, whatever the content.
\* (Stated for listeners opened while no commit was in flight; C8 is about
\* the others.)
C6_SnapshotApplied ==
    (/\ last.op = "snapshot"
     /\ last.snap.exists
     /\ ~last.saving
     /\ ~last.subSaving) =>
        code[last.c] = last.snap.content

\* C7: a snapshot handled while isSaving is true leaves the buffer as it was.
C7_EchoSuppressed ==
    (last.op = "snapshot" /\ last.saving) =>
        code[last.c] = last.prevCode

\* C8: a listener opened while a commit was in flight applies a snapshot
\* with distinct, non-empty content once isSaving has cleared.
C8_SuppressionEnds ==
    (/\ last.op = "snapshot"
     /\ last.subSaving
     /\ ~last.saving
     /\ last.snap.exists
     /\ last.snap.content # last.prevCode
     /\ last.snap.content # "") =>
        code[last.c] = last.snap.content

\* C9: the creation commit issued for an absent snapshot carries the content
\* the buffer held when the snapshot was handled.
C9_CreationCarriesBuffer ==
    (last.op = "snapshot" /\ ~last.snap.exists) =>
        last.commit = Existing(last.prevCode)

\* C10: a listener that has seen the document absent has issued exactly one
\* creation commit, however often the absent snapshot was delivered.
C10_OneCreationCommit ==
    \A c \in Clients :
        subStats[c].absents >= 1 => subStats[c].creates = 1

\* The listener of c is live, has handled an absent snapshot, and nothing of
\* c is left that could still act on its room: no snapshot undelivered, no
\* timer set, no write of c in flight.
Settled(c) ==
    /\ sub[c].active
    /\ subStats[c].absents >= 1
    /\ inbox[c] = <<>>
    /\ ~timer[c].set
    /\ \A i \in 1..Len(writes) : writes[i].client # c

\* C11 (as claimed): every room a client subscribes to ends up with a
\* persisted document, even if the creation write fails: once the listener
\* has handled the absent snapshot and its writes have settled, the document
\* of its room exists.
C11_EveryRoomPersisted ==
    \A c \in Clients :
        Settled(c) => DocAt(sub[c].room).exists

\* C11 (amended): a listener that has handled an absent snapshot has its
\* room's document persisted once its creation write is no longer in flight,
\* unless that write failed; a failed creation write is not repeated.
C11_PersistedUnlessFailed ==
    \A c \in Clients :
        (/\ sub[c].active
         /\ subStats[c].absents >= 1
         /\ subStats[c].failed = 0
         /\ \A i \in 1..Len(writes) :
                ~(/\ writes[i].client = c
                  /\ writes[i].room = sub[c].room
                  /\ ~writes[i].applied)) =>
            DocAt(sub[c].room).exists

\* A room other than the default one was created by the listener's own
\* creation commit, with no edit by anyone.
C11_Witness ==
    \E c \in Clients :
        /\ Settled(c)
        /\ subStats[c].failed = 0
        /\ sub[c].room # DefaultRoom
        /\ nRemote = 0
        /\ DocAt(sub[c].room) = Existing(sub[c].code)

\* Both clients listen to room r, both listeners were opened with different
\* buffers and have issued a creation commit, and every write has resolved
\* and every notification has been delivered.
RaceSettled(r) ==
    /\ \A c \in Clients :
           /\ sub[c].active /\ sub[c].room = r
           /\ subStats[c].absents >= 1
           /\ inbox[c] = <<>>
           /\ ~dirty[c]
           /\ ~(timer[c].set /\ timer[c].room = r)
    /\ \E c, d \in Clients : sub[c].code # sub[d].code
    /\ writes = <<>>
    /\ DocAt(r).exists

\* C12: after a creation race between two clients with different buffers
\* has settled, both buffers equal the content of the write the store
\* applied last.
C12_CreationRaceConverges ==
    RaceSettled(PairRoom) =>
        \A c \in Clients : code[c] = DocAt(PairRoom).content

\* C13: a client has at most one listener open, the one on its current
\* room; every snapshot waiting for it, and every snapshot its callback has
\* handled, is one of that listener.
C13_OneSubscription ==
    /\ \A c \in Clients :
           /\ Cardinality(listeners[c]) <= 1
           /\ listeners[c] \subseteq {snippetId[c]}
           /\ sub[c].active <=> listeners[c] # {}
           /\ \A i \in 1..Len(inbox[c]) : inbox[c][i].room = snippetId[c]
    /\ last.op = "snapshot" => last.snap.room = snippetId[last.c]

\* A client that has left the default room, whose document exists, has
\* handled a snapshot of its new room's document and holds its content.
C13_Witness ==
    /\ last.op = "snapshot"
    /\ last.snap.exists
    /\ last.snap.room # DefaultRoom
    /\ sub[last.c].room = last.snap.room
    /\ DocAt(DefaultRoom).exists
    /\ code[last.c] = last.snap.content
    /\ code[last.c] # DocAt(DefaultRoom).content

\* C14: once every write of a client has resolved, successfully or not,
\* its isSaving is false.
C14_SavingClears ==
    \A c \in Clients :
        (\A i \in 1..Len(writes) : writes[i].client # c) => ~isSaving[c]

\* The second of a client's two commits has just failed, no write is left
\* in flight, and isSaving, true until then, is false.
C14_Witness ==
    /\ last.op = "fail"
    /\ last.saving
    /\ nIssued = 2
    /\ writes = <<>>
    /\ ~isSaving[last.c]

\* C15: the step in which a write fails leaves the buffer and the timer as
\* they were, sets the error status, and issues no write: the failed write
\* is gone and no other has been started.
C15_FailureNoRollbackNoRetry ==
    [][last'.op = "fail" =>
          /\ code' = code
          /\ status'[last'.c].msg = "Error: Failed to save changes."
          /\ timer' = timer
          /\ nIssued' = nIssued
          /\ Len(writes') = Len(writes) - 1]_vars

\* The write of a local edit has failed: the buffer still holds the edit,
\* which the store does not have, and nothing is pending.
C15_Witness ==
    /\ last.op = "fail"
    /\ code[last.c] = "x"
    /\ sub[last.c].active
    /\ DocAt(sub[last.c].room).content # "x"
    /\ status[last.c].msg = "Error: Failed to save changes."
    /\ writes = <<>>
    /\ ~timer[last.c].set

\* C16: isSaving is true exactly while at least one write of the client is
\* in flight.  (Stated for listeners that have issued at most one creation
\* commit; C10 is about the others.)
C16_SavingIffInFlight ==
    \A c \in Clients :
        subStats[c].creates <= 1 =>
            (isSaving[c] <=> \E i \in 1..Len(writes) : writes[i].client = c)

\* C17: at most one write started by a timer expiry is in flight per
\* client.
C17_DebounceCommitsNeverOverlap ==
    \A c \in Clients :
        Cardinality({i \in 1..Len(writes) :
                        /\ writes[i].client = c
                        /\ writes[i].origin = "debounce"}) <= 1

\* C18: a timer that fires was scheduled in the room that is current when
\* it fires: a room switch leaves no earlier timer to fire.
C18_SwitchCancelsTimer ==
    [][last'.op = "fire" =>
          timer[last'.c].room = snippetId[last'.c]]_vars

\* The timers and writes of a step, by client, room and content.
Targets(ws) == {<<ws[i].client, ws[i].room, ws[i].content>> : i \in 1..Len(ws)}

\* C19: a timer takes the room current at the edit that sets it and keeps
\* it; a write started by a timer goes to the timer's room, a creation
\* write to the room current when the absent snapshot is handled; a write
\* in flight keeps its room.  Room switches change none of them.
C19_WriteTargetsScheduledRoom ==
    [][/\ \A c \in Clients :
              timer'[c].set =>
                  timer'[c].room =
                      IF timer'[c].remaining = QuietPeriod /\ timer'[c] # timer[c]
                      THEN snippetId[c]
                      ELSE timer[c].room
       /\ Len(writes') > Len(writes) =>
              LET w == writes'[Len(writes')] IN
              /\ SubSeq(writes', 1, Len(writes)) = writes
              /\ w.room = IF w.origin = "debounce"
                          THEN timer[w.client].room
                          ELSE snippetId[w.client]
       /\ Len(writes') <= Len(writes) =>
              Targets(writes') \subseteq Targets(writes)]_vars

\* A timer set in one room has fired after the client moved to another,
\* and its write targets the room of the edit.
C19_Witness ==
    /\ last.op = "fire"
    /\ writes # <<>>
    /\ LET w == writes[Len(writes)] IN
       /\ w.client = last.c
       /\ w.origin = "debounce"
       /\ w.room = DefaultRoom
       /\ snippetId[last.c] # DefaultRoom

\* C20: handling a snapshot that reports the document absent leaves the
\* buffer as it was.
C20_AbsentKeepsBuffer ==
    (last.op = "snapshot" /\ ~last.snap.exists) =>
        code[last.c] = last.prevCode

====
